---- MODULE Spec2Model ----
(***************************************************************************)
(* pdfire: HTML/URL to PDF conversion and merge.                           *)
(*                                                                         *)
(* Two state machines are modelled from the converter (package pdfire),    *)
(*   SessionSpec  one Convert call: ConvertHTML / ConvertURL, the          *)
(*                chromedp.Run action chain and the post-processing;        *)
(*   Spec         one Merge call: the forMerge goroutines, the two         *)
(*                buffered channels and the mergeDocs fan-in loop.         *)
(* and a third one from the options resolver:                              *)
(*   ResolveSpec  one NewConversionOptionsFromJSON call on a decoded body. *)
(* The browser and the PDF engine are collaborators: each of their calls   *)
(* is a step whose outcome (success, engine failure, context error) is     *)
(* chosen nondeterministically.                                            *)
(***************************************************************************)
EXTENDS Integers, Sequences, FiniteSets, TLC

\* Largest number of documents of a merge request.
MaxDocs == 2

VARIABLES
    \* ---- one render session (Convert) ----
    opt,         \* *ConversionOptions handed to Convert
    st,          \* position of the session in the action chain
    serr,        \* error returned by Convert ("" while running or on success)
    ctxErr,      \* ctx.Err() of the conversion context
    subscribed,  \* chromedp.ListenTarget callback installed
    navIssued,   \* chromedp.Navigate has sent the navigation
    fired,       \* page-lifecycle events fired since the navigation
    waiter,      \* number of values buffered in the waiter channel (cap 1)
    gotReady,    \* a value was received from waiter
    expiredAt,   \* state the session was in when its deadline expired
    fileExists,  \* the temporary HTML file is on disk
    sbuf,        \* buf of ConvertHTML / ConvertURL
    sout,        \* bytes copied to the writer w
    calls,       \* capability invocations so far, in order
    visited,     \* session states entered so far, in order
    \* ---- one merge (Merge) ----
    mreq,        \* JSON body of the merge request, until it is decoded
    mopt,        \* *MergeOptions handed to Merge
    mpc,         \* position of Merge / mergeDocs
    mctx,        \* ctx.Err() of the context handed to Merge
    tpc,         \* position of each forMerge goroutine
    terr,        \* error Convert returned in each goroutine
    tbuf,        \* buf of each forMerge goroutine
    cres,        \* result channel
    cerr,        \* error channel
    bufs,        \* bufs slice of mergeDocs
    c,           \* counter c of mergeDocs
    readers,     \* byte streams handed to api.Merge
    mret,        \* error returned by Merge
    mout,        \* bytes copied to the writer w of Merge
    encLog,      \* invocations of the encryption capability during the merge
    arrival,     \* indices of the results received by mergeDocs, in order
    docPwOnEntry, \* some document carried a password when Merge was entered
    \* ---- one resolution of a conversion request ----
    rreq,        \* decoded JSON body of the request
    rpc,         \* position of NewConversionOptionsFromJSON
    ropt,        \* *ConversionOptions it returned
    rerr         \* error it returned

svars == <<opt, st, serr, ctxErr, subscribed, navIssued, fired, waiter,
           gotReady, expiredAt, fileExists, sbuf, sout, calls, visited>>
mvars == <<mreq, mopt, mpc, mctx, tpc, terr, tbuf, cres, cerr, bufs, c,
           readers, mret, mout, encLog, arrival, docPwOnEntry>>
rvars == <<rreq, rpc, ropt, rerr>>
vars == <<svars, mvars, rvars>>

----------------------------------------------------------------------------
(* Errors *)

ErrTimeout == "Timeout"
ErrWaitUntilTimeout == "WaitUntilTimeout"
ErrNoBody == "NoBody"
DeadlineExceeded == "DeadlineExceeded"
Canceled == "Canceled"
EngineFailure == "EngineFailure"
ErrNoSource == "NoSource"

\* A Run error check that reports every failure as a timeout.
RunErrorAlwaysTimeout(e) == ErrTimeout

\* ConvertHTML / ConvertURL: only context.DeadlineExceeded is rewritten.
RunError(e) == IF e = DeadlineExceeded THEN ErrTimeout ELSE e

----------------------------------------------------------------------------
(* Inputs *)

\* time.Millisecond, in nanoseconds.
Millisecond == 1000000

\* Durations as parseDuration stores them: 0 and 250 ms, in nanoseconds.
DurationValues == {0, 250 * Millisecond}

WatermarkConfigs == {"none", "wm"}

ConversionOptions ==
    [HTML : {"", "h"}, URL : {"", "u"},
     Selector : {"", "#pdf"},
     WaitForSelector : {"", "#wait"},
     WaitForSelectorTimeout : DurationValues,
     WaitUntil : {"load", "dom"},
     WaitUntilTimeout : DurationValues,
     Delay : DurationValues,
     Timeout : DurationValues,
     OwnerPassword : {"", "o"}, UserPassword : {"", "u"},
     Watermark : WatermarkConfigs]

\* Options of the sessions explored: any combination of the two sources
\* (the resolver checks neither), and a selector timeout only together with
\* a selector to wait for.
SessionOptions ==
    {o \in ConversionOptions :
        o.WaitForSelector = "" => o.WaitForSelectorTimeout = 0}

----------------------------------------------------------------------------
(* PDF engine *)

\* printToPDFAction: the bytes the browser prints for a document.
PrintToPDF(o) == IF o.URL # "" THEN <<"pdf", o.URL>> ELSE <<"pdf", o.HTML>>

\* api.Optimize with an AES configuration (cfg.Cmd = ENCRYPT).
Encrypt(b, ownerPw, userPw) == b \o <<"enc", ownerPw, userPw>>

\* A secure without the early return.
secureAlways(b, ownerPw, userPw) == Encrypt(b, ownerPw, userPw)

\* secure: no password, no encryption.
secure(b, ownerPw, userPw) ==
    IF ownerPw = "" /\ userPw = "" THEN b ELSE Encrypt(b, ownerPw, userPw)

secureCalls(target, ownerPw, userPw) ==
    IF ownerPw = "" /\ userPw = "" THEN <<>>
    ELSE <<[cap |-> "encrypt", target |-> target,
            ownerPw |-> ownerPw, userPw |-> userPw]>>

\* api.AddWatermarks.
watermark(b, config) == b \o <<"stamp", config>>

----------------------------------------------------------------------------
(* One render session: Convert, ConvertHTML, ConvertURL *)

NoErr == "none"

Terminal == {"Done", "Failed"}

Goto(s) == st' = s /\ visited' = Append(visited, s)

\* chromedp.Run returned e: the session ends in Failed.
Fail(e) == Goto("Failed") /\ serr' = RunError(e)

Invoke(name) == calls' = Append(calls, name)

AfterDelay == IF opt.Selector # "" THEN "ExtractingSelector" ELSE "Rendering"

\* An afterNavigation that drops the delay.
AfterReadyNoDelay == AfterDelay

AfterReady == IF opt.Delay > 0 THEN "Delaying" ELSE AfterDelay

\* afterNavigation runs the selector wait first, the readiness wait second.
AfterSelectorWait == "WaitingReady"

AfterNavigate ==
    IF opt.WaitForSelector # "" THEN "WaitingSelector" ELSE AfterSelectorWait

\* A beforeNavigation that returns without calling chromedp.ListenTarget.
ListenTargetSkipped(installed) == installed

\* chromedp.ListenTarget in beforeNavigation: the callback is installed.
ListenTarget(installed) == TRUE

\* The callback handed to chromedp.ListenTarget.
Listener(kind, w) == IF opt.WaitUntil = kind THEN w + 1 ELSE w

\* Err() of waitCtx in afterNavigation: WithCancel(ctx) when the selector
\* timeout is positive, WithTimeout(ctx, 0) otherwise.
WaitCtxErr ==
    IF ctxErr # NoErr THEN ctxErr
    ELSE IF opt.WaitForSelectorTimeout > 0 THEN NoErr
    ELSE DeadlineExceeded

\* Convert: dispatch on URL; ConvertHTML writes the temporary file first.
Convert ==
    /\ st = "Init"
    /\ waiter' = 0
    /\ \/ /\ opt.URL # ""
          /\ Goto("Configuring")
          /\ UNCHANGED <<serr, fileExists>>
       \/ /\ opt.URL = ""
          /\ \/ /\ fileExists' = TRUE
                /\ Goto("Configuring")
                /\ UNCHANGED serr
             \/ /\ Goto("Failed")
                /\ serr' = "CreateError"
                /\ UNCHANGED fileExists
    /\ UNCHANGED <<opt, ctxErr, subscribed, navIssued, fired, gotReady,
                   expiredAt, sbuf, sout, calls, mvars, rvars>>

\* The action returned by beforeNavigation: device metrics, ad blocking,
\* headers, media, then the lifecycle listener.
BeforeNavigation ==
    /\ st = "Configuring"
    /\ \/ /\ ctxErr # NoErr
          /\ Fail(ctxErr)
          /\ UNCHANGED <<subscribed, calls>>
       \/ /\ ctxErr = NoErr
          /\ Fail(EngineFailure)
          /\ UNCHANGED <<subscribed, calls>>
       \/ /\ ctxErr = NoErr
          /\ subscribed' = ListenTarget(subscribed)
          /\ Invoke("configure")
          /\ Goto("Navigating")
          /\ UNCHANGED serr
    /\ UNCHANGED <<opt, ctxErr, navIssued, fired, waiter, gotReady,
                   expiredAt, fileExists, sbuf, sout, mvars, rvars>>

\* chromedp.Navigate sends the navigation command ...
NavigateIssue ==
    /\ st = "Navigating"
    /\ ~navIssued
    /\ \/ /\ ctxErr # NoErr
          /\ Fail(ctxErr)
          /\ UNCHANGED <<navIssued, calls>>
       \/ /\ ctxErr = NoErr
          /\ navIssued' = TRUE
          /\ Invoke("navigate")
          /\ UNCHANGED <<st, visited, serr>>
    /\ UNCHANGED <<opt, ctxErr, subscribed, fired, waiter, gotReady,
                   expiredAt, fileExists, sbuf, sout, mvars, rvars>>

\* ... and returns when the browser answers it.
NavigateReturn ==
    /\ st = "Navigating"
    /\ navIssued
    /\ \/ /\ ctxErr # NoErr
          /\ Fail(ctxErr)
       \/ /\ ctxErr = NoErr
          /\ Fail(EngineFailure)
       \/ /\ ctxErr = NoErr
          /\ Goto(AfterNavigate)
          /\ UNCHANGED serr
    /\ UNCHANGED <<opt, ctxErr, subscribed, navIssued, fired, waiter,
                   gotReady, expiredAt, fileExists, sbuf, sout, calls, mvars, rvars>>

\* afterNavigation: chromedp.WaitReady(options.WaitForSelector).Do(waitCtx).
WaitForSelector ==
    /\ st = "WaitingSelector"
    /\ \/ /\ WaitCtxErr # NoErr
          /\ Fail(WaitCtxErr)
          /\ UNCHANGED calls
       \/ /\ WaitCtxErr = NoErr
          /\ Fail(EngineFailure)
          /\ UNCHANGED calls
       \/ /\ WaitCtxErr = NoErr
          /\ Invoke("waitReady")
          /\ Goto(AfterSelectorWait)
          /\ UNCHANGED serr
    /\ UNCHANGED <<opt, ctxErr, subscribed, navIssued, fired, waiter,
                   gotReady, expiredAt, fileExists, sbuf, sout, mvars, rvars>>

\* afterNavigation: <-waiter, directly or in the goroutine of waiterTimeout.
ReceiveWaiter ==
    /\ st = "WaitingReady"
    /\ waiter > 0
    /\ waiter' = waiter - 1
    /\ gotReady' = TRUE
    /\ Goto(AfterReady)
    /\ UNCHANGED <<opt, serr, ctxErr, subscribed, navIssued, fired,
                   expiredAt, fileExists, sbuf, sout, calls, mvars, rvars>>

RECURSIVE Int64Bytes(_, _)
\* The k low bytes of a non-negative integer, lowest first; with k = 8 the
\* int64 that holds it.
Int64Bytes(n, k) ==
    IF k = 0 THEN <<>> ELSE <<n % 256>> \o Int64Bytes(n \div 256, k - 1)

RECURSIVE MulBytes(_, _, _)
\* The product of an int64 and a factor, byte by byte with carry; the carry
\* out of the highest byte is dropped, as the int64 multiplication of Go
\* drops it.
MulBytes(bytes, factor, carry) ==
    IF bytes = <<>> THEN <<>>
    ELSE <<(Head(bytes) * factor + carry) % 256>>
         \o MulBytes(Tail(bytes), factor,
                     (Head(bytes) * factor + carry) \div 256)

\* afterNavigation: time.Duration(options.WaitUntilTimeout)*time.Millisecond,
\* the duration handed to waiterTimeout and to time.NewTimer, in
\* nanoseconds.
TimerDuration(options) ==
    MulBytes(Int64Bytes(options.WaitUntilTimeout, 8), Millisecond, 0)

\* waiterTimeout: the timer branch of the select; only armed when
\* WaitUntilTimeout > 0.
WaiterTimeout ==
    /\ st = "WaitingReady"
    /\ opt.WaitUntilTimeout > 0
    /\ Goto("Failed")
    /\ serr' = RunError(ErrWaitUntilTimeout)
    /\ UNCHANGED <<opt, ctxErr, subscribed, navIssued, fired, waiter,
                   gotReady, expiredAt, fileExists, sbuf, sout, calls, mvars, rvars>>

\* afterNavigation: <-time.After(options.Delay).
Delay ==
    /\ st = "Delaying"
    /\ Goto(AfterDelay)
    /\ UNCHANGED <<opt, serr, ctxErr, subscribed, navIssued, fired, waiter,
                   gotReady, expiredAt, fileExists, sbuf, sout, calls, mvars, rvars>>

\* afterNavigation: OuterHTML of the selector, Nodes("body"), SetOuterHTML.
\* With no body, Nodes yields no node and a nil error, which is returned.
ExtractSelector ==
    /\ st = "ExtractingSelector"
    /\ \/ /\ ctxErr # NoErr
          /\ Fail(ctxErr)
          /\ UNCHANGED calls
       \/ /\ ctxErr = NoErr
          /\ Fail(EngineFailure)
          /\ UNCHANGED calls
       \/ /\ ctxErr = NoErr
          /\ calls' = calls \o <<"outerHTML", "nodes:0">>
          /\ Goto("Rendering")
          /\ UNCHANGED serr
       \/ /\ ctxErr = NoErr
          /\ calls' = calls \o <<"outerHTML", "nodes:1", "setOuterHTML">>
          /\ Goto("Rendering")
          /\ UNCHANGED serr
    /\ UNCHANGED <<opt, ctxErr, subscribed, navIssued, fired, waiter,
                   gotReady, expiredAt, fileExists, sbuf, sout, mvars, rvars>>

\* printToPDFAction: PDFParams.Do, then the bytes are written to buf.
PrintToPDFAction ==
    /\ st = "Rendering"
    /\ \/ /\ ctxErr # NoErr
          /\ Fail(ctxErr)
          /\ UNCHANGED <<sbuf, calls>>
       \/ /\ ctxErr = NoErr
          /\ Fail(EngineFailure)
          /\ UNCHANGED <<sbuf, calls>>
       \/ /\ ctxErr = NoErr
          /\ sbuf' = PrintToPDF(opt)
          /\ Invoke("printToPDF")
          /\ Goto("PostProcessing")
          /\ UNCHANGED serr
    /\ UNCHANGED <<opt, ctxErr, subscribed, navIssued, fired, waiter,
                   gotReady, expiredAt, fileExists, sout, mvars, rvars>>

\* The tail of ConvertHTML / ConvertURL after chromedp.Run succeeded:
\* os.Remove (HTML only), watermark, secure, io.Copy. `failure` names the
\* step that returns an error, "" when none does.
PostFailures(o) ==
    {""} \cup (IF o.URL = "" THEN {"RemoveError"} ELSE {})
         \cup (IF o.Watermark # "none" THEN {"WatermarkError"} ELSE {})
         \cup (IF o.OwnerPassword = "" /\ o.UserPassword = ""
               THEN {} ELSE {"EncryptError"})

\* A tail that goes on to the watermark after a failed os.Remove.
PostCallsPastRemove(o, failure) ==
    (IF o.URL = "" THEN <<"remove">> ELSE <<>>)
    \o (IF o.Watermark # "none" THEN <<"watermark">> ELSE <<>>)
    \o (IF failure \in {"", "EncryptError"}
            /\ ~(o.OwnerPassword = "" /\ o.UserPassword = "")
         THEN <<"encrypt">> ELSE <<>>)

PostCalls(o, failure) ==
    (IF o.URL = "" THEN <<"remove">> ELSE <<>>)
    \o (IF failure # "RemoveError" /\ o.Watermark # "none"
         THEN <<"watermark">> ELSE <<>>)
    \o (IF failure \in {"", "EncryptError"}
            /\ ~(o.OwnerPassword = "" /\ o.UserPassword = "")
         THEN <<"encrypt">> ELSE <<>>)

\* A tail that encrypts first and stamps the encrypted bytes.
PostBytesEncryptFirst(o, b) ==
    IF o.Watermark # "none"
    THEN watermark(secure(b, o.OwnerPassword, o.UserPassword), o.Watermark)
    ELSE secure(b, o.OwnerPassword, o.UserPassword)

PostBytes(o, b) ==
    secure(IF o.Watermark # "none" THEN watermark(b, o.Watermark) ELSE b,
           o.OwnerPassword, o.UserPassword)

PostProcess ==
    /\ st = "PostProcessing"
    /\ \E failure \in PostFailures(opt) :
          /\ calls' = calls \o PostCalls(opt, failure)
          /\ fileExists' = IF opt.URL = "" /\ failure # "RemoveError"
                           THEN FALSE ELSE fileExists
          /\ IF failure = ""
             THEN /\ sbuf' = PostBytes(opt, sbuf)
                  /\ sout' = PostBytes(opt, sbuf)
                  /\ Goto("Done")
                  /\ UNCHANGED serr
             ELSE /\ Goto("Failed")
                  /\ serr' = failure
                  /\ UNCHANGED <<sbuf, sout>>
    /\ UNCHANGED <<opt, ctxErr, subscribed, navIssued, fired, waiter,
                   gotReady, expiredAt, mvars, rvars>>

(* Environment of the session *)

\* conversionContext: WithTimeout only when options.Timeout # 0; the
\* deadline runs from the start of ConvertHTML / ConvertURL.
DeadlineExpires ==
    /\ opt.Timeout > 0
    /\ st \notin ({"Init"} \cup Terminal)
    /\ ctxErr = NoErr
    /\ ctxErr' = DeadlineExceeded
    /\ expiredAt' = st
    /\ UNCHANGED <<opt, st, serr, subscribed, navIssued, fired, waiter,
                   gotReady, fileExists, sbuf, sout, calls, visited, mvars, rvars>>

\* The caller cancels the context it handed to Convert.
CallerCancels ==
    /\ st \notin Terminal
    /\ ctxErr = NoErr
    /\ ctxErr' = Canceled
    /\ UNCHANGED <<opt, st, serr, subscribed, navIssued, fired, waiter,
                   gotReady, expiredAt, fileExists, sbuf, sout, calls,
                   visited, mvars, rvars>>

LifecycleEvents == {"load", "dom"}

\* The page fires EventLoadEventFired / EventDomContentEventFired, once
\* each per navigation, while the browser context is alive.
LifecycleEvent(kind) ==
    /\ navIssued
    /\ st \notin Terminal
    /\ ctxErr = NoErr
    /\ kind \notin fired
    /\ fired' = fired \cup {kind}
    /\ waiter' = IF subscribed THEN Listener(kind, waiter) ELSE waiter
    /\ UNCHANGED <<opt, st, serr, ctxErr, subscribed, navIssued, gotReady,
                   expiredAt, fileExists, sbuf, sout, calls, visited, mvars, rvars>>

----------------------------------------------------------------------------
(* Request bodies: JSON values and the scalar getters *)

\* JSON values of a decoded request body: t is the dynamic type of the
\* interface{} value; "absent" stands for a key that is not in the map.
JAbsent == [t |-> "absent", s |-> "", n |-> 0]
JStr(x) == [t |-> "string", s |-> x, n |-> 0]
JNum(k) == [t |-> "number", s |-> "", n |-> k]
JBool(b) == [t |-> "bool", s |-> "", n |-> IF b THEN 1 ELSE 0]
JNull == [t |-> "null", s |-> "", n |-> 0]
JObj(x) == [t |-> "object", s |-> x, n |-> 0]

\* jsonMap[key] with its ok flag folded into the value.
Get(jsonMap, key) ==
    IF key \in DOMAIN jsonMap THEN jsonMap[key] ELSE JAbsent

ParseError(key) == "ParseError:" \o key

\* parseString: the default when the key is absent, a ParseError when the
\* value is not a string.
parseString(jsonMap, key, def) ==
    IF Get(jsonMap, key).t = "absent" THEN [err |-> "", v |-> def]
    ELSE IF Get(jsonMap, key).t # "string"
    THEN [err |-> ParseError(key), v |-> ""]
    ELSE [err |-> "", v |-> Get(jsonMap, key).s]

\* A parseInt64 that forgets its default.
parseInt64NoDefault(jsonMap, key, def) ==
    IF Get(jsonMap, key).t = "absent" THEN [err |-> "", v |-> 0]
    ELSE IF Get(jsonMap, key).t # "number"
    THEN [err |-> ParseError(key), v |-> 0]
    ELSE [err |-> "", v |-> Get(jsonMap, key).n]

parseInt64(jsonMap, key, def) ==
    IF Get(jsonMap, key).t = "absent" THEN [err |-> "", v |-> def]
    ELSE IF Get(jsonMap, key).t # "number"
    THEN [err |-> ParseError(key), v |-> 0]
    ELSE [err |-> "", v |-> Get(jsonMap, key).n]

parseFloat64(jsonMap, key, def) ==
    IF Get(jsonMap, key).t = "absent" THEN [err |-> "", v |-> def]
    ELSE IF Get(jsonMap, key).t # "number"
    THEN [err |-> ParseError(key), v |-> 0]
    ELSE [err |-> "", v |-> Get(jsonMap, key).n]

\* A parseBool that takes any value that is not a bool as false.
parseBoolLenient(jsonMap, key, def) ==
    IF Get(jsonMap, key).t = "absent" THEN [err |-> "", v |-> def]
    ELSE IF Get(jsonMap, key).t # "bool" THEN [err |-> "", v |-> FALSE]
    ELSE [err |-> "", v |-> Get(jsonMap, key).n = 1]

parseBool(jsonMap, key, def) ==
    IF Get(jsonMap, key).t = "absent" THEN [err |-> "", v |-> def]
    ELSE IF Get(jsonMap, key).t # "bool"
    THEN [err |-> ParseError(key), v |-> FALSE]
    ELSE [err |-> "", v |-> Get(jsonMap, key).n = 1]

\* parseDuration: milliseconds to a time.Duration, negative values to 0.
parseDuration(jsonMap, key, def) ==
    LET val == parseInt64(jsonMap, key, 0)
    IN  IF val.err # "" THEN [err |-> val.err, v |-> 0]
        ELSE [err |-> "",
              v |-> (IF val.v < 0 THEN 0 ELSE val.v) * Millisecond]

\* A parseStringOnly that allows every string.
parseStringAny(jsonMap, key, def, allowed) == parseString(jsonMap, key, def)

\* parseStringOnly: a string that is one of the allowed ones.
parseStringOnly(jsonMap, key, def, allowed) ==
    LET param == parseString(jsonMap, key, def)
    IN  IF param.err # "" THEN param
        ELSE IF param.v \in allowed THEN param
        ELSE [err |-> ParseError(key), v |-> def]

MediaScreen == "screen"
MediaPrint == "print"

parseEmulateMedia(jsonMap, def) ==
    LET raw == Get(jsonMap, "emulateMedia")
    IN  IF raw.t = "absent" THEN [err |-> "", v |-> def]
        ELSE IF raw.t # "string"
        THEN [err |-> ParseError("emulateMedia"), v |-> def]
        ELSE IF raw.s # MediaScreen /\ raw.s # MediaPrint
        THEN [err |-> ParseError("emulateMedia"), v |-> def]
        ELSE [err |-> "", v |-> raw.s]

\* parseHeaders: the object of the request, an empty map ("") when absent.
parseHeaders(jsonMap) ==
    LET raw == Get(jsonMap, "headers")
    IN  IF raw.t = "absent" THEN [err |-> "", v |-> ""]
        ELSE IF raw.t # "object"
        THEN [err |-> ParseError("headers"), v |-> ""]
        ELSE [err |-> "", v |-> raw.s]

----------------------------------------------------------------------------
(* Lengths: unit texts, pixels, inches *)

\* A length in inches is q/2400 in + eps * 0.00000001 in: hundredths of an
\* inch (24 each) and ninety-sixths of an inch (25 each) are whole.
Inches(q) == [q |-> q, eps |-> 0]

\* Whole hundredths of an inch.
Hundredths(h) == Inches(24 * h)

\* 0.00000001 in, the value parseMarginsFix puts in place of 0.
Tiny == [q |-> 0, eps |-> 1]

\* The characters of the texts that are unit-parsed or lower-cased here.
Texts ==
    {"96px", "96", "96PX", "1in", "3cm", "10mm", "10px", "20px", "30px",
     "40px", "0px", "0", "5", "1.5in", "96pt", "10", "abc", "-96px", "",
     "px", "10px 20px", "10px 20px 30px", "10px 20px 30px 40px", " 10px ",
     "10px  20px", "10px 20px 30px 40px 96px", "0px 10px", "10px abc",
     "1in 3cm", "a4", "A4", "letter", "Letter", "legal", "a3", "b5", "load",
     "dom", "screen", "print", "h", "u", "o", "#pdf", "1-2",
     "never"}

Chars ==
    [s \in Texts |->
       CASE s = "96px" -> <<"9", "6", "p", "x">>
         [] s = "96" -> <<"9", "6">>
         [] s = "96PX" -> <<"9", "6", "P", "X">>
         [] s = "1in" -> <<"1", "i", "n">>
         [] s = "3cm" -> <<"3", "c", "m">>
         [] s = "10mm" -> <<"1", "0", "m", "m">>
         [] s = "10px" -> <<"1", "0", "p", "x">>
         [] s = "20px" -> <<"2", "0", "p", "x">>
         [] s = "30px" -> <<"3", "0", "p", "x">>
         [] s = "40px" -> <<"4", "0", "p", "x">>
         [] s = "0px" -> <<"0", "p", "x">>
         [] s = "0" -> <<"0">>
         [] s = "5" -> <<"5">>
         [] s = "1.5in" -> <<"1", ".", "5", "i", "n">>
         [] s = "96pt" -> <<"9", "6", "p", "t">>
         [] s = "10" -> <<"1", "0">>
         [] s = "abc" -> <<"a", "b", "c">>
         [] s = "-96px" -> <<"-", "9", "6", "p", "x">>
         [] s = "" -> <<>>
         [] s = "px" -> <<"p", "x">>
         [] s = "10px 20px" -> <<"1", "0", "p", "x", " ", "2", "0", "p", "x">>
         [] s = "10px 20px 30px" -> <<"1", "0", "p", "x", " ", "2", "0", "p", "x", " ", "3", "0", "p", "x">>
         [] s = "10px 20px 30px 40px" -> <<"1", "0", "p", "x", " ", "2", "0", "p", "x", " ", "3", "0", "p", "x", " ", "4", "0", "p", "x">>
         [] s = " 10px " -> <<" ", "1", "0", "p", "x", " ">>
         [] s = "10px  20px" -> <<"1", "0", "p", "x", " ", " ", "2", "0", "p", "x">>
         [] s = "10px 20px 30px 40px 96px" -> <<"1", "0", "p", "x", " ", "2", "0", "p", "x", " ", "3", "0", "p", "x", " ", "4", "0", "p", "x", " ", "9", "6", "p", "x">>
         [] s = "0px 10px" -> <<"0", "p", "x", " ", "1", "0", "p", "x">>
         [] s = "10px abc" -> <<"1", "0", "p", "x", " ", "a", "b", "c">>
         [] s = "1in 3cm" -> <<"1", "i", "n", " ", "3", "c", "m">>
         [] s = "a4" -> <<"a", "4">>
         [] s = "A4" -> <<"A", "4">>
         [] s = "letter" -> <<"l", "e", "t", "t", "e", "r">>
         [] s = "Letter" -> <<"L", "e", "t", "t", "e", "r">>
         [] s = "legal" -> <<"l", "e", "g", "a", "l">>
         [] s = "a3" -> <<"a", "3">>
         [] s = "b5" -> <<"b", "5">>
         [] s = "load" -> <<"l", "o", "a", "d">>
         [] s = "dom" -> <<"d", "o", "m">>
         [] s = "screen" -> <<"s", "c", "r", "e", "e", "n">>
         [] s = "print" -> <<"p", "r", "i", "n", "t">>
         [] s = "h" -> <<"h">>
         [] s = "u" -> <<"u">>
         [] s = "o" -> <<"o">>
         [] s = "#pdf" -> <<"#", "p", "d", "f">>
         [] s = "1-2" -> <<"1", "-", "2">>
         [] s = "never" -> <<"n", "e", "v", "e", "r">>]

UpperCase ==
    <<"A", "B", "C", "D", "E", "F", "G", "H", "I", "J", "K", "L", "M",
      "N", "O", "P", "Q", "R", "S", "T", "U", "V", "W", "X", "Y", "Z">>
LowerCase ==
    <<"a", "b", "c", "d", "e", "f", "g", "h", "i", "j", "k", "l", "m",
      "n", "o", "p", "q", "r", "s", "t", "u", "v", "w", "x", "y", "z">>
Letters == {UpperCase[i] : i \in DOMAIN UpperCase}
             \cup {LowerCase[i] : i \in DOMAIN LowerCase}
Digits == <<"0", "1", "2", "3", "4", "5", "6", "7", "8", "9">>

\* strings.ToLower, one character.
ToLower(ch) ==
    IF \E i \in DOMAIN UpperCase : UpperCase[i] = ch
    THEN LowerCase[CHOOSE i \in DOMAIN UpperCase : UpperCase[i] = ch]
    ELSE ch

IsDigit(ch) == \E i \in DOMAIN Digits : Digits[i] = ch
DigitValue(ch) == (CHOOSE i \in DOMAIN Digits : Digits[i] = ch) - 1

\* regexp "[a-zA-Z]+$" replaced by "": the text without its trailing letters.
RECURSIVE StripLetters(_)
StripLetters(cs) ==
    IF cs # <<>> /\ cs[Len(cs)] \in Letters
    THEN StripLetters(SubSeq(cs, 1, Len(cs) - 1))
    ELSE cs

\* The value of a run of digits.
RECURSIVE DigitsValue(_)
DigitsValue(cs) ==
    IF cs = <<>> THEN 0
    ELSE 10 * DigitsValue(SubSeq(cs, 1, Len(cs) - 1))
           + DigitValue(cs[Len(cs)])

\* A text without its sign.
Unsigned(cs) == IF cs # <<>> /\ cs[1] \in {"+", "-"} THEN Tail(cs) ELSE cs

\* The place of the first point of a text, past its end when it has none.
PointAt(cs) ==
    IF \E i \in DOMAIN cs : cs[i] = "."
    THEN CHOOSE i \in DOMAIN cs :
           cs[i] = "." /\ \A j \in 1..(i - 1) : cs[j] # "."
    ELSE Len(cs) + 1

\* The value in hundredths of the digits whole "." frac, at most two
\* decimals kept, and the syntax error of texts that are no such digits.
Decimal(negative, whole, frac) ==
    IF \/ \E i \in DOMAIN whole : ~IsDigit(whole[i])
       \/ \E i \in DOMAIN frac : ~IsDigit(frac[i])
       \/ Len(whole) + Len(frac) = 0
    THEN [err |-> "invalid syntax", v |-> 0]
    ELSE [err |-> "",
          v |-> (IF negative THEN -1 ELSE 1)
                  * (100 * DigitsValue(whole)
                       + (IF Len(frac) >= 1 THEN 10 * DigitValue(frac[1])
                          ELSE 0)
                       + (IF Len(frac) >= 2 THEN DigitValue(frac[2])
                          ELSE 0))]

\* strconv.ParseFloat for decimal texts (sign, digits, one point, digits;
\* no exponent).
ParseFloat(cs) ==
    Decimal(cs # <<>> /\ cs[1] = "-",
            SubSeq(Unsigned(cs), 1, PointAt(Unsigned(cs)) - 1),
            SubSeq(Unsigned(cs), PointAt(Unsigned(cs)) + 1,
                   Len(Unsigned(cs))))

\* math.Round of a / b for b > 0: to the nearest integer, halves away from 0.
Round(a, b) ==
    IF a >= 0 THEN (2 * a + b) \div (2 * b)
    ELSE 0 - ((2 * (0 - a) + b) \div (2 * b))

\* UnitToPixels, in hundredths of a pixel.
UnitToPixels ==
    [u \in {"px", "in", "cm", "mm"} |->
       CASE u = "px" -> 100 [] u = "in" -> 9600
         [] u = "cm" -> 3780 [] u = "mm" -> 378]

\* pixelToInch: math.Round((pixel*100)/96) / 100, for a pixel count given
\* in ten-thousandths of a pixel.
pixelToInch(pixel) == Hundredths(Round(pixel, 9600))

\* The last two characters of a text, in lower case.
UnitOf(raw) == ToLower(raw[Len(raw) - 1]) \o ToLower(raw[Len(raw)])

\* The end of stringToInch: the error of ParseFloat, or the inches of the
\* pixels value * unitPixels.
ToInch(value, unitPixels) ==
    IF value.err # "" THEN [err |-> value.err, v |-> Inches(0)]
    ELSE [err |-> "", v |-> pixelToInch(value.v * unitPixels)]

\* stringToInch: the last two characters are the unit; when they are none
\* of UnitToPixels the lookup has left unitPixels at its zero value, and
\* the assignment unit = "px" does not change it.
stringToInch(raw) ==
    IF Len(raw) < 2 THEN [err |-> "invalid unit", v |-> Inches(0)]
    ELSE IF UnitOf(raw) \in DOMAIN UnitToPixels
    THEN ToInch(ParseFloat(StripLetters(SubSeq(raw, 1, Len(raw) - 2))),
                UnitToPixels[UnitOf(raw)])
    ELSE ToInch(ParseFloat(StripLetters(raw)), 0)

\* The end of parseUnit: an error of stringToInch becomes a ParseError.
UnitResult(key, in) ==
    IF in.err # "" THEN [err |-> ParseError(key), v |-> Inches(0)] ELSE in

\* parseUnit: a number is a pixel count (fval / 96, not rounded), a string
\* is unit-parsed, anything else is a ParseError.
parseUnit(jsonMap, key, def) ==
    IF Get(jsonMap, key).t = "absent" THEN [err |-> "", v |-> def]
    ELSE IF Get(jsonMap, key).t = "number"
    THEN [err |-> "", v |-> Inches(25 * Get(jsonMap, key).n)]
    ELSE IF Get(jsonMap, key).t # "string"
    THEN [err |-> ParseError(key), v |-> Inches(0)]
    ELSE UnitResult(key, stringToInch(Chars[Get(jsonMap, key).s]))

\* A comparison of format names that minds the case.
ToLowerTextSame(s) == s

\* strings.ToLower of a text.
RECURSIVE Join(_)
Join(cs) == IF cs = <<>> THEN "" ELSE cs[1] \o Join(Tail(cs))
ToLowerText(s) == Join([i \in DOMAIN Chars[s] |-> ToLower(Chars[s][i])])

\* strings.Trim(raw, " ").
RECURSIVE Trim(_)
Trim(cs) ==
    IF cs # <<>> /\ cs[1] = " " THEN Trim(Tail(cs))
    ELSE IF cs # <<>> /\ cs[Len(cs)] = " "
    THEN Trim(SubSeq(cs, 1, Len(cs) - 1))
    ELSE cs

\* strings.Split(cs, " "): two spaces in a row give an empty value.
RECURSIVE Split(_)
Split(cs) ==
    LET spaces == {i \in DOMAIN cs : cs[i] = " "}
        first == CHOOSE i \in spaces : \A j \in spaces : i <= j
    IN  IF spaces = {} THEN <<cs>>
        ELSE <<SubSeq(cs, 1, first - 1)>>
               \o Split(SubSeq(cs, first + 1, Len(cs)))

Margins(mt, mr, mb, ml, err) ==
    [mt |-> mt, mr |-> mr, mb |-> mb, ml |-> ml, err |-> err]

\* A shorthand that gives the left side of three values the first one.
ShorthandLeftFirst(t) ==
    LET zero == Inches(0)
        n == IF Len(t) > 4 THEN 4 ELSE Len(t)
        bad == {i \in 1..n : t[i].err # ""}
    IN  IF bad # {}
        THEN Margins(zero, zero, zero, zero,
                     t[CHOOSE i \in bad : \A j \in bad : i <= j].err)
        ELSE IF n = 1 THEN Margins(t[1].v, t[1].v, t[1].v, t[1].v, "")
        ELSE IF n = 2 THEN Margins(t[1].v, t[2].v, t[1].v, t[2].v, "")
        ELSE IF n = 3 THEN Margins(t[1].v, t[2].v, t[3].v, t[1].v, "")
        ELSE Margins(t[1].v, t[2].v, t[3].v, t[4].v, "")

\* The returns of parseMarginsFrom for the unit-parsed values t: one to
\* four values, top right bottom left; the error of the first of them that
\* did not parse, as stringToInch returned it. Values after the fourth are
\* not looked at.
Shorthand(t) ==
    LET zero == Inches(0)
        n == IF Len(t) > 4 THEN 4 ELSE Len(t)
        bad == {i \in 1..n : t[i].err # ""}
    IN  IF bad # {}
        THEN Margins(zero, zero, zero, zero,
                     t[CHOOSE i \in bad : \A j \in bad : i <= j].err)
        ELSE IF n = 1 THEN Margins(t[1].v, t[1].v, t[1].v, t[1].v, "")
        ELSE IF n = 2 THEN Margins(t[1].v, t[2].v, t[1].v, t[2].v, "")
        ELSE IF n = 3 THEN Margins(t[1].v, t[2].v, t[3].v, t[2].v, "")
        ELSE Margins(t[1].v, t[2].v, t[3].v, t[4].v, "")

\* stringToInch of each of the values.
UnitParsed(values) == [i \in DOMAIN values |-> stringToInch(values[i])]

\* parseMarginsFrom: the text is trimmed, split on spaces and each value
\* unit-parsed.
parseMarginsFrom(raw) == Shorthand(UnitParsed(Split(Trim(raw))))

\* The four keys of parseMargins: the sides up to the first that failed,
\* with its error.
Sides(marginTop, marginRight, marginBottom, marginLeft) ==
    LET zero == Inches(0)
    IN  IF marginTop.err # ""
        THEN Margins(marginTop.v, zero, zero, zero, marginTop.err)
        ELSE IF marginRight.err # ""
        THEN Margins(marginTop.v, marginRight.v, zero, zero, marginRight.err)
        ELSE IF marginBottom.err # ""
        THEN Margins(marginTop.v, marginRight.v, marginBottom.v, zero,
                     marginBottom.err)
        ELSE IF marginLeft.err # ""
        THEN Margins(marginTop.v, marginRight.v, marginBottom.v, zero,
                     marginLeft.err)
        ELSE Margins(marginTop.v, marginRight.v, marginBottom.v,
                     marginLeft.v, "")

\* One value for the four sides.
AllSides(m) == Margins(m, m, m, m, "")

\* parseMargins: a number for all sides, else a shorthand text, else the
\* four keys, each 0.4 in when absent.
parseMargins(jsonMap) ==
    IF parseFloat64(jsonMap, "margin", -1).err = ""
         /\ parseFloat64(jsonMap, "margin", -1).v > -1
    THEN AllSides(pixelToInch(parseFloat64(jsonMap, "margin", -1).v * 10000))
    ELSE IF parseString(jsonMap, "margin", "").err = ""
              /\ parseString(jsonMap, "margin", "").v # ""
    THEN parseMarginsFrom(Chars[parseString(jsonMap, "margin", "").v])
    ELSE Sides(parseUnit(jsonMap, "marginTop", Hundredths(40)),
               parseUnit(jsonMap, "marginRight", Hundredths(40)),
               parseUnit(jsonMap, "marginBottom", Hundredths(40)),
               parseUnit(jsonMap, "marginLeft", Hundredths(40)))

\* The loop of parseMarginsFix: 0 becomes 0.00000001.
Fix(v) == IF v = Inches(0) THEN Tiny ELSE v

\* The end of parseMarginsFix: the margins as they are when parseMargins
\* failed, without zeros when it did not.
FixAll(m) ==
    IF m.err # "" THEN m
    ELSE Margins(Fix(m.mt), Fix(m.mr), Fix(m.mb), Fix(m.ml), "")

parseMarginsFix(jsonMap) == FixAll(parseMargins(jsonMap))

\* PaperFormats: width and height in hundredths of an inch.
PaperFormats ==
    [f \in {"letter", "legal", "tabloid", "ledger", "a0", "a1", "a2", "a3",
            "a4", "a5", "a6"} |->
       CASE f = "letter" -> <<850, 1100>>
         [] f = "legal" -> <<850, 1400>>
         [] f = "tabloid" -> <<1100, 1700>>
         [] f = "ledger" -> <<1700, 1100>>
         [] f = "a0" -> <<3310, 4680>>
         [] f = "a1" -> <<2340, 3310>>
         [] f = "a2" -> <<1654, 2340>>
         [] f = "a3" -> <<1170, 1654>>
         [] f = "a4" -> <<827, 1170>>
         [] f = "a5" -> <<583, 827>>
         [] f = "a6" -> <<413, 583>>]

----------------------------------------------------------------------------
(* Conversion options from a request body *)

\* A nil *ConversionOptions.
NilOptions == [nil |-> TRUE]

NewConversionOptions ==
    [HTML |-> "", URL |-> "",
     Landscape |-> FALSE, DisplayHeaderFooter |-> FALSE,
     PrintBackground |-> TRUE, Scale |-> 1,
     PaperWidth |-> Hundredths(850), PaperHeight |-> Hundredths(1100),
     MarginTop |-> Hundredths(40), MarginBottom |-> Hundredths(40),
     MarginLeft |-> Hundredths(40), MarginRight |-> Hundredths(40),
     PageRanges |-> "", HeaderTemplate |-> "", FooterTemplate |-> "",
     PreferCSSPageSize |-> FALSE,
     ViewportWidth |-> 1920, ViewportHeight |-> 1080, BlockAds |-> FALSE,
     Selector |-> "", WaitForSelector |-> "",
     WaitForSelectorTimeout |-> 0, WaitUntil |-> "load",
     WaitUntilTimeout |-> 0, Delay |-> 0, Timeout |-> 0,
     Headers |-> "", EmulateMedia |-> MediaScreen,
     OwnerPassword |-> "", UserPassword |-> "", Watermark |-> "none"]

\* The first of the errors of the parses, in their order, "" when none.
FirstError(errs) ==
    LET failed == {i \in DOMAIN errs : errs[i] # ""}
    IN  IF failed = {} THEN ""
        ELSE errs[CHOOSE i \in failed : \A j \in failed : i <= j]

\* params.MarginTop = marginTop and the three assignments after it.
WithMargins(options, m) ==
    [options EXCEPT !.MarginTop = m.mt, !.MarginBottom = m.mb,
                    !.MarginLeft = m.ml, !.MarginRight = m.mr]

\* NewConversionOptionsFromJSON for a decoded body: the keys are parsed in
\* the order of the code and the first error is returned with nil options.
\* The error of a format that is not a string only skips the preset, and
\* the error of parseMarginsFix is overwritten by the next parse.
NewConversionOptionsFromJSON(jsonMap) ==
    LET html == parseString(jsonMap, "html", "")
        url == parseString(jsonMap, "url", "")
        landscape == parseBool(jsonMap, "landscape", FALSE)
        displayHeaderFooter == parseBool(jsonMap, "displayHeaderFooter", FALSE)
        printBackground == parseBool(jsonMap, "printBackground", TRUE)
        scale == parseFloat64(jsonMap, "scale", 1)
        paperWidth == parseUnit(jsonMap, "paperWidth",
                                NewConversionOptions.PaperWidth)
        paperHeight == parseUnit(jsonMap, "paperHeight",
                                 NewConversionOptions.PaperHeight)
        format == parseString(jsonMap, "format", "")
        preset == format.err = ""
                    /\ ToLowerText(format.v) \in DOMAIN PaperFormats
        f == PaperFormats[ToLowerText(format.v)]
        pageRanges == parseString(jsonMap, "pageRanges", "")
        headerTemplate == parseString(jsonMap, "headerTemplate", "")
        footerTemplate == parseString(jsonMap, "footerTemplate", "")
        preferCSSPageSize == parseBool(jsonMap, "preferCSSPageSize", FALSE)
        viewportWidth == parseInt64(jsonMap, "viewportWidth", 1920)
        viewportHeight == parseInt64(jsonMap, "viewportHeight", 1080)
        blockAds == parseBool(jsonMap, "blockAds", FALSE)
        selector == parseString(jsonMap, "selector", "")
        waitForSelector == parseString(jsonMap, "waitForSelector", "")
        waitForSelectorTimeout ==
            parseDuration(jsonMap, "waitForSelectorTimeout", 0)
        waitUntil == parseStringOnly(jsonMap, "waitUntil", "load",
                                     {"load", "dom"})
        waitUntilTimeout == parseDuration(jsonMap, "waitUntilTimeout", 0)
        delay == parseDuration(jsonMap, "delay", 0)
        timeout == parseDuration(jsonMap, "timeout", 0)
        headers == parseHeaders(jsonMap)
        emulateMedia == parseEmulateMedia(jsonMap, MediaScreen)
        ownerPassword == parseString(jsonMap, "ownerPassword", "")
        userPassword == parseString(jsonMap, "userPassword", "")
        err ==
            FirstError(
              <<html.err, url.err, landscape.err, displayHeaderFooter.err,
                printBackground.err, scale.err, paperWidth.err,
                paperHeight.err, pageRanges.err, headerTemplate.err,
                footerTemplate.err, preferCSSPageSize.err, viewportWidth.err,
                viewportHeight.err, blockAds.err, selector.err,
                waitForSelector.err, waitForSelectorTimeout.err,
                waitUntil.err, waitUntilTimeout.err, delay.err, timeout.err,
                headers.err, emulateMedia.err, ownerPassword.err,
                userPassword.err>>)
    IN  IF err # ""
        THEN [err |-> err, options |-> NilOptions]
        ELSE [err |-> "",
              options |->
                WithMargins(
                  [HTML |-> html.v, URL |-> url.v,
                   Landscape |-> landscape.v,
                   DisplayHeaderFooter |-> displayHeaderFooter.v,
                   PrintBackground |-> printBackground.v,
                   Scale |-> scale.v,
                   PaperWidth |-> IF preset THEN Hundredths(f[1])
                                  ELSE paperWidth.v,
                   PaperHeight |-> IF preset THEN Hundredths(f[2])
                                   ELSE paperHeight.v,
                   MarginTop |-> Inches(0), MarginBottom |-> Inches(0),
                   MarginLeft |-> Inches(0), MarginRight |-> Inches(0),
                   PageRanges |-> pageRanges.v,
                   HeaderTemplate |-> headerTemplate.v,
                   FooterTemplate |-> footerTemplate.v,
                   PreferCSSPageSize |-> preferCSSPageSize.v,
                   ViewportWidth |-> viewportWidth.v,
                   ViewportHeight |-> viewportHeight.v,
                   BlockAds |-> blockAds.v,
                   Selector |-> selector.v,
                   WaitForSelector |-> waitForSelector.v,
                   WaitForSelectorTimeout |-> waitForSelectorTimeout.v,
                   WaitUntil |-> waitUntil.v,
                   WaitUntilTimeout |-> waitUntilTimeout.v,
                   Delay |-> delay.v, Timeout |-> timeout.v,
                   Headers |-> headers.v, EmulateMedia |-> emulateMedia.v,
                   OwnerPassword |-> ownerPassword.v,
                   UserPassword |-> userPassword.v,
                   Watermark |-> "none"],
                  parseMarginsFix(jsonMap))]

----------------------------------------------------------------------------
(* One resolution: request bodies and NewConversionOptionsFromJSON *)

\* The keys NewConversionOptionsFromJSON reads.
Keys ==
    {"html", "url", "landscape", "displayHeaderFooter", "printBackground",
     "scale", "paperWidth", "paperHeight", "format", "margin", "marginTop",
     "marginRight", "marginBottom", "marginLeft", "pageRanges",
     "headerTemplate", "footerTemplate", "preferCSSPageSize",
     "viewportWidth", "viewportHeight", "blockAds", "selector",
     "waitForSelector", "waitForSelectorTimeout", "waitUntil",
     "waitUntilTimeout", "delay", "timeout", "headers", "emulateMedia",
     "ownerPassword", "userPassword"}

\* A key of a body that the resolver does not read.
OtherKeys == {"watermark"}

\* The body {}.
NoKeys == [k \in Keys \cup OtherKeys |-> JAbsent]

Numbers == {-5, 0, 96, 192, 250}

JSONValues ==
    {JNull, JBool(TRUE), JBool(FALSE), JObj(""), JObj("hdr")}
      \cup {JNum(k) : k \in Numbers}
      \cup {JStr(x) : x \in Texts}

\* Pairs of keys that are sent together, and the values they take then.
KeyPairs ==
    {<<"format", "paperWidth">>, <<"margin", "marginTop">>,
     <<"marginTop", "marginBottom">>, <<"html", "url">>,
     <<"landscape", "userPassword">>, <<"paperHeight", "timeout">>}

PairValues ==
    {JNum(0), JNum(96), JBool(TRUE), JStr("a4"), JStr("96px"), JStr("0px"),
     JStr("abc"), JStr("10px 20px")}

\* The decoded bodies resolved here: {}, one key, two keys.
Requests ==
    {NoKeys}
      \cup {[NoKeys EXCEPT ![k] = v] :
               k \in Keys \cup OtherKeys, v \in JSONValues}
      \cup {[NoKeys EXCEPT ![p[1]] = v, ![p[2]] = w] :
               p \in KeyPairs, v \in PairValues, w \in PairValues}

\* The keys that are in a body.
Present(jsonMap) == {k \in DOMAIN jsonMap : jsonMap[k].t # "absent"}

\* NewConversionOptionsFromJSON called on the decoded body.
ResolveRequest ==
    /\ rpc = "request"
    /\ \E r \in {NewConversionOptionsFromJSON(rreq)} :
          /\ rpc' = IF r.err = "" THEN "resolved" ELSE "rejected"
          /\ ropt' = r.options
          /\ rerr' = r.err
    /\ UNCHANGED <<rreq, svars, mvars>>

----------------------------------------------------------------------------
(* One merge: Merge, forMerge, mergeDocs *)

\* options.OwnerPassword = ""; options.UserPassword = "".
ClearPasswords(o) == [o EXCEPT !.OwnerPassword = "", !.UserPassword = ""]

\* A Merge that leaves the documents as they came.
MergeKeepPasswords(docs) == docs

\* Merge: the first loop over options.Documents.
MergeClearPasswords(docs) ==
    [i \in DOMAIN docs |->
        [docs[i] EXCEPT !.OwnerPassword = "", !.UserPassword = ""]]

NoRequest == [documents |-> [t |-> "absent", items |-> <<>>],
              ownerPassword |-> JAbsent, userPassword |-> JAbsent]

NoMergeOptions ==
    [Documents |-> <<>>, OwnerPassword |-> "", UserPassword |-> "",
     Watermark |-> "none"]

\* A loop that goes on after an element that did not resolve.
LastInvalid(resolved) ==
    LET bad == {i \in DOMAIN resolved : resolved[i].err # ""}
    IN  IF bad = {} THEN 0 ELSE CHOOSE i \in bad : \A j \in bad : i >= j

\* The loop of NewMergeOptionsFromJSON over docdata, for the results of
\* NewConversionOptionsFromJSON on its elements: the index of the first
\* element that did not resolve, 0 when all did.
FirstInvalid(resolved) ==
    LET bad == {i \in DOMAIN resolved : resolved[i].err # ""}
    IN  IF bad = {} THEN 0 ELSE CHOOSE i \in bad : \A j \in bad : i <= j

\* NewConversionOptionsFromJSON on each element of docdata.
ResolveAll(items) ==
    [i \in DOMAIN items |-> NewConversionOptionsFromJSON(items[i])]

\* NewMergeOptionsFromJSON from the loop on: the error of the first
\* document that did not resolve, else the documents without passwords and
\* the two passwords of the request.
ResolveDocuments(req, resolved) ==
    IF FirstInvalid(resolved) # 0
    THEN [err |-> resolved[FirstInvalid(resolved)].err,
          options |-> NoMergeOptions]
    ELSE LET ownerPassword == parseString(req, "ownerPassword", "")
             userPassword == parseString(req, "userPassword", "")
         IN  IF ownerPassword.err # ""
             THEN [err |-> ownerPassword.err, options |-> NoMergeOptions]
             ELSE IF userPassword.err # ""
             THEN [err |-> userPassword.err, options |-> NoMergeOptions]
             ELSE [err |-> "",
                   options |->
                     [Documents |->
                        [i \in DOMAIN resolved |->
                           ClearPasswords(resolved[i].options)],
                      OwnerPassword |-> ownerPassword.v,
                      UserPassword |-> userPassword.v,
                      Watermark |-> "none"]]

\* NewMergeOptionsFromJSON: the result for a decoded body.
ResolveMerge(req) ==
    IF req.documents.t # "array"
    THEN [err |-> ParseError("documents"), options |-> NoMergeOptions]
    ELSE ResolveDocuments(req, ResolveAll(req.documents.items))

Nil == <<"nil">>

N == Len(mopt.Documents)

NewMergeOptionsFromJSON ==
    /\ mpc = "request"
    /\ mreq' = NoRequest
    /\ \E r \in {ResolveMerge(mreq)} :
          IF r.err # ""
          THEN /\ mpc' = "rejected"
               /\ mret' = r.err
               /\ UNCHANGED mopt
          ELSE /\ mpc' = "resolved"
               /\ mopt' = r.options
               /\ UNCHANGED mret
    /\ UNCHANGED <<mctx, tpc, terr, tbuf, cres, cerr, bufs, c, readers, mout,
                   encLog, arrival, docPwOnEntry, svars, rvars>>

\* Merge up to the call of mergeDocs, and the allocation of bufs there:
\* the passwords of the documents are cleared, the channels are made with
\* capacity len(Documents), one goroutine is started per document.
Merge ==
    /\ mpc \in {"resolved", "built"}
    /\ docPwOnEntry' = \E i \in 1..N :
                          ~(mopt.Documents[i].OwnerPassword = ""
                            /\ mopt.Documents[i].UserPassword = "")
    /\ mopt' = [mopt EXCEPT !.Documents = MergeClearPasswords(@)]
    /\ cres' = <<>>
    /\ cerr' = <<>>
    /\ tpc' = [i \in 1..N |-> "convert"]
    /\ terr' = [i \in 1..N |-> ""]
    /\ tbuf' = [i \in 1..N |-> <<>>]
    /\ bufs' = [i \in 1..N |-> Nil]
    /\ c' = 0
    /\ mpc' = "collect"
    /\ UNCHANGED <<mreq, mctx, readers, mret, mout, encLog, arrival, svars, rvars>>

\* Channels that hold one message whatever the number of documents.
ChanCapOne(n) == 1

\* Merge: make(chan result, len(options.Documents)) and make(chan error,
\* len(options.Documents)), the capacity of cres and of cerr.
ChanCap(n) == n

\* Errors Convert can return to forMerge: the context error once the
\* context is done, a collaborator failure (passed on verbatim) before.
ConvertErrors(ctxe) ==
    IF ctxe # NoErr THEN {RunError(ctxe)} ELSE {EngineFailure}

\* forMerge: Convert(ctx, buf, options) runs the session of document i to
\* its end; on success buf holds the post-processed PDF.
ForMergeConvert(i) ==
    /\ i \in DOMAIN tpc
    /\ tpc[i] = "convert"
    /\ \/ /\ mctx = NoErr
          /\ terr' = [terr EXCEPT ![i] = ""]
          /\ tbuf' = [tbuf EXCEPT ![i] =
                        PostBytes(mopt.Documents[i],
                                  PrintToPDF(mopt.Documents[i]))]
          /\ encLog' = encLog \o
                secureCalls("document", mopt.Documents[i].OwnerPassword,
                            mopt.Documents[i].UserPassword)
          /\ tpc' = [tpc EXCEPT ![i] = "sendres"]
       \/ /\ \E e \in ConvertErrors(mctx) : terr' = [terr EXCEPT ![i] = e]
          /\ tpc' = [tpc EXCEPT ![i] = "senderr"]
          /\ UNCHANGED <<tbuf, encLog>>
    /\ UNCHANGED <<mreq, mopt, mpc, mctx, cres, cerr, bufs, c, readers, mret,
                   mout, arrival, docPwOnEntry, svars, rvars>>

\* forMerge: cerr <- err.
ForMergeSendErr(i) ==
    /\ i \in DOMAIN tpc
    /\ tpc[i] = "senderr"
    /\ Len(cerr) < ChanCap(N)
    /\ cerr' = Append(cerr, terr[i])
    /\ tpc' = [tpc EXCEPT ![i] = "sendres"]
    /\ UNCHANGED <<mreq, mopt, mpc, mctx, terr, tbuf, cres, bufs, c, readers,
                   mret, mout, encLog, arrival, docPwOnEntry, svars, rvars>>

\* forMerge: cres <- result{index, buf}, after a success and after a
\* failure alike.
ForMergeSendRes(i) ==
    /\ i \in DOMAIN tpc
    /\ tpc[i] = "sendres"
    /\ Len(cres) < ChanCap(N)
    /\ cres' = Append(cres, [index |-> i, buf |-> tbuf[i]])
    /\ tpc' = [tpc EXCEPT ![i] = "done"]
    /\ UNCHANGED <<mreq, mopt, mpc, mctx, terr, tbuf, cerr, bufs, c, readers,
                   mret, mout, encLog, arrival, docPwOnEntry, svars, rvars>>

\* A fan-in that fills the slots in order of arrival.
SlotByArrival(res, count) == count + 1

\* mergeDocs: bufs[res.index] = res.buf.
Slot(res, count) == res.index

\* mergeDocs: case err := <-cerrs.
ReceiveErr ==
    /\ mpc = "collect"
    /\ c # N
    /\ cerr # <<>>
    /\ mret' = Head(cerr)
    /\ cerr' = Tail(cerr)
    /\ mpc' = "returned"
    /\ UNCHANGED <<mreq, mopt, mctx, tpc, terr, tbuf, cres, bufs, c, readers,
                   mout, encLog, arrival, docPwOnEntry, svars, rvars>>

\* mergeDocs: case res := <-cres.
ReceiveRes ==
    /\ mpc = "collect"
    /\ c # N
    /\ cres # <<>>
    /\ bufs' = [bufs EXCEPT ![Slot(Head(cres), c)] = Head(cres).buf]
    /\ c' = c + 1
    /\ arrival' = Append(arrival, Head(cres).index)
    /\ cres' = Tail(cres)
    /\ UNCHANGED <<mreq, mopt, mpc, mctx, tpc, terr, tbuf, cerr, readers,
                   mret, mout, encLog, docPwOnEntry, svars, rvars>>

\* mergeDocs: case <-ctx.Done().
ReceiveDone ==
    /\ mpc = "collect"
    /\ c # N
    /\ mctx # NoErr
    /\ mret' = ErrTimeout
    /\ mpc' = "returned"
    /\ UNCHANGED <<mreq, mopt, mctx, tpc, terr, tbuf, cres, cerr, bufs, c,
                   readers, mout, encLog, arrival, docPwOnEntry, svars, rvars>>

RECURSIVE Concat(_)
\* api.Merge: the parts one after the other.
Concat(parts) ==
    IF parts = <<>> THEN <<>> ELSE Head(parts) \o Concat(Tail(parts))

\* mergeDocs: c == len(bufs), the readers are built and handed to api.Merge.
MergeParts ==
    /\ mpc = "collect"
    /\ c = N
    /\ readers' = bufs
    /\ \/ /\ mout' = Concat(bufs)
          /\ mpc' = "secure"
          /\ UNCHANGED mret
       \/ /\ mret' = "MergeError"
          /\ mpc' = "returned"
          /\ UNCHANGED mout
    /\ UNCHANGED <<mreq, mopt, mctx, tpc, terr, tbuf, cres, cerr, bufs, c,
                   encLog, arrival, docPwOnEntry, svars, rvars>>

\* mergeDocs: secure(merged, OwnerPassword, UserPassword), io.Copy, return.
SecureMerged ==
    /\ mpc = "secure"
    /\ encLog' = encLog \o
                   secureCalls("merged", mopt.OwnerPassword, mopt.UserPassword)
    /\ \/ /\ mout' = secure(mout, mopt.OwnerPassword, mopt.UserPassword)
          /\ UNCHANGED mret
       \/ /\ ~(mopt.OwnerPassword = "" /\ mopt.UserPassword = "")
          /\ mret' = "EncryptError"
          /\ mout' = <<>>
    /\ mpc' = "returned"
    /\ UNCHANGED <<mreq, mopt, mctx, tpc, terr, tbuf, cres, cerr, bufs, c,
                   readers, arrival, docPwOnEntry, svars, rvars>>

\* The context handed to Merge is done: its deadline passed or the caller
\* cancelled it.
MergeCtxDone(e) ==
    /\ mpc \in {"resolved", "built", "collect", "secure"}
    /\ mctx = NoErr
    /\ mctx' = e
    /\ UNCHANGED <<mreq, mopt, mpc, tpc, terr, tbuf, cres, cerr, bufs, c,
                   readers, mret, mout, encLog, arrival, docPwOnEntry, svars, rvars>>

NoMerge ==
    /\ mreq = NoRequest
    /\ mopt = NoMergeOptions
    /\ mpc = "idle"
    /\ mctx = NoErr
    /\ tpc = <<>>
    /\ terr = <<>>
    /\ tbuf = <<>>
    /\ cres = <<>>
    /\ cerr = <<>>
    /\ bufs = <<>>
    /\ c = 0
    /\ readers = <<>>
    /\ mret = ""
    /\ mout = <<>>
    /\ encLog = <<>>
    /\ arrival = <<>>
    /\ docPwOnEntry = FALSE

NoResolve ==
    /\ rreq = NoKeys
    /\ rpc = "idle"
    /\ ropt = NilOptions
    /\ rerr = ""

NoSession ==
    /\ opt = NewConversionOptions
    /\ st = "Idle"
    /\ serr = ""
    /\ ctxErr = NoErr
    /\ subscribed = FALSE
    /\ navIssued = FALSE
    /\ fired = {}
    /\ waiter = 0
    /\ gotReady = FALSE
    /\ expiredAt = ""
    /\ fileExists = FALSE
    /\ sbuf = <<>>
    /\ sout = <<>>
    /\ calls = <<>>
    /\ visited = <<>>

(* Inputs of a merge *)

Seqs(S, n) == UNION {[1..k -> S] : k \in 1..n}

\* Documents of a MergeOptions value a caller assembles by hand.
MergeDocuments ==
    {o \in ConversionOptions :
        /\ (o.HTML = "") # (o.URL = "")
        /\ o.Selector = "" /\ o.WaitForSelector = ""
        /\ o.WaitForSelectorTimeout = 0 /\ o.WaitUntil = "load"
        /\ o.WaitUntilTimeout = 0 /\ o.Delay = 0 /\ o.Timeout = 0
        /\ o.Watermark = "none"}

BuiltMergeOptions ==
    [Documents : Seqs(MergeDocuments, MaxDocs),
     OwnerPassword : {"", "o"}, UserPassword : {"", "u"},
     Watermark : WatermarkConfigs]

\* Elements of the documents array of a request body; the last two have an
\* html or a url value of the wrong type.
RequestDocuments ==
    [html : {JAbsent, JStr("h")}, url : {JAbsent, JStr("u")},
     ownerPassword : {JAbsent, JStr("o")}, userPassword : {JAbsent, JStr("u")}]
    \cup {[html |-> JNum(1), url |-> JAbsent,
           ownerPassword |-> JAbsent, userPassword |-> JAbsent],
          [html |-> JAbsent, url |-> JNum(1),
           ownerPassword |-> JAbsent, userPassword |-> JAbsent]}

MergeRequests ==
    [documents : [t : {"array"}, items : Seqs(RequestDocuments, MaxDocs)]
                 \cup {[t |-> "absent", items |-> <<>>],
                       [t |-> "string", items |-> <<>>]},
     ownerPassword : {JAbsent, JStr("o"), JNum(1)},
     userPassword : {JAbsent, JStr("u")}]

----------------------------------------------------------------------------
(* Specifications *)

SessionInit ==
    /\ opt \in SessionOptions
    /\ st = "Init"
    /\ serr = ""
    /\ ctxErr = NoErr
    /\ subscribed = FALSE
    /\ navIssued = FALSE
    /\ fired = {}
    /\ waiter = 0
    /\ gotReady = FALSE
    /\ expiredAt = ""
    /\ fileExists = FALSE
    /\ sbuf = <<>>
    /\ sout = <<>>
    /\ calls = <<>>
    /\ visited = <<"Init">>
    /\ NoMerge
    /\ NoResolve

SessionStep ==
    \/ Convert
    \/ BeforeNavigation
    \/ NavigateIssue
    \/ NavigateReturn
    \/ WaitForSelector
    \/ ReceiveWaiter
    \/ WaiterTimeout
    \/ Delay
    \/ ExtractSelector
    \/ PrintToPDFAction
    \/ PostProcess

SessionNext ==
    \/ SessionStep
    \/ DeadlineExpires
    \/ CallerCancels
    \/ \E kind \in LifecycleEvents : LifecycleEvent(kind)

SessionSpec == SessionInit /\ [][SessionNext]_vars

\* The goroutine running the session is scheduled; events of the environment
\* (deadline, cancellation, page events) may or may not happen.
SessionFairSpec == SessionSpec /\ WF_vars(SessionStep)

----------------------------------------------------------------------------
(* Render session properties *)

Range(f) == {f[x] : x \in DOMAIN f}

SuspensionPoints ==
    {"Navigating", "WaitingReady", "WaitingSelector", "Delaying", "Rendering"}

\* C3: a session with timeout > 0 whose deadline expires while it is
\* suspended at navigation, at the readiness wait, at the selector wait, in
\* the delay or in the render call eventually ends in Failed with Timeout.
C3_DeadlineYieldsTimeout ==
    [](opt.Timeout > 0 /\ expiredAt \in SuspensionPoints
         => <>(st = "Failed" /\ serr = ErrTimeout))

\* C4: the lifecycle listener is installed before the navigation is issued,
\* and the configured readiness event, whenever it fires after the
\* navigation started, reaches the waiter channel: it is buffered there or
\* has been received.
C4_SubscribedBeforeNavigation ==
    /\ navIssued => subscribed
    /\ opt.WaitUntil \in fired => (waiter = 1 \/ gotReady)

\* The readiness event fired while Navigate had not yet returned and is kept.
C4_Witness ==
    st = "Navigating" /\ navIssued /\ opt.WaitUntil \in fired /\ waiter = 1

SpecRank ==
    [Init |-> 0, Configuring |-> 1, Navigating |-> 2, WaitingReady |-> 3,
     WaitingSelector |-> 4, Delaying |-> 5, ExtractingSelector |-> 6,
     Rendering |-> 7, PostProcessing |-> 8, Done |-> 9, Failed |-> 9]

CodeRank ==
    [Init |-> 0, Configuring |-> 1, Navigating |-> 2, WaitingSelector |-> 3,
     WaitingReady |-> 4, Delaying |-> 5, ExtractingSelector |-> 6,
     Rendering |-> 7, PostProcessing |-> 8, Done |-> 9, Failed |-> 9]

InOrder(rank) ==
    \A i \in 1..(Len(visited) - 1) : rank[visited[i]] < rank[visited[i + 1]]

OptionalStates ==
    /\ "WaitingSelector" \in Range(visited) <=> opt.WaitForSelector # ""
    /\ "Delaying" \in Range(visited) <=> opt.Delay > 0
    /\ "ExtractingSelector" \in Range(visited) <=> opt.Selector # ""

\* C5 as stated: the states are visited in the order Configuring,
\* Navigating, WaitingReady, [WaitingSelector], [Delaying],
\* [ExtractingSelector], Rendering, and the selector wait never starts
\* before the readiness signal has been received.
C5_SpecOrder ==
    /\ InOrder(SpecRank)
    /\ st = "WaitingSelector" => gotReady

\* C5 amended: the states are visited in the order Configuring, Navigating,
\* [WaitingSelector], WaitingReady, [Delaying], [ExtractingSelector],
\* Rendering; a session that reaches Rendering has passed WaitingReady and
\* exactly the optional states its options ask for, and the delay, the
\* extraction and the rendering never start before the readiness signal
\* has been received.
C5_CodeOrder ==
    /\ InOrder(CodeRank)
    /\ "Rendering" \in Range(visited)
         => /\ {"Configuring", "Navigating", "WaitingReady"}
                 \subseteq Range(visited)
            /\ OptionalStates
    /\ st \in {"Delaying", "ExtractingSelector", "Rendering"} => gotReady
    /\ st = "WaitingReady" /\ opt.WaitForSelector # ""
         => "WaitingSelector" \in Range(visited)

\* A session with every optional state has arrived at Rendering.
C5_Witness ==
    /\ st = "Rendering"
    /\ visited = <<"Init", "Configuring", "Navigating", "WaitingSelector",
                   "WaitingReady", "Delaying", "ExtractingSelector",
                   "Rendering">>

\* C6: with waitUntilTimeout > 0 the readiness wait ends in one of two
\* ways: the timer fires and the session fails with WaitUntilTimeout (not
\* Timeout) without ever rendering, or the buffered readiness signal is
\* received and the session moves to the next state.
C6_ReadinessRace ==
    [][/\ st = "WaitingReady" /\ opt.WaitUntilTimeout > 0 /\ st' # st
          => \/ /\ st' = "Failed"
                /\ serr' = ErrWaitUntilTimeout
                /\ serr' # ErrTimeout
                /\ "printToPDF" \notin Range(calls')
             \/ /\ waiter = 1
                /\ gotReady'
                /\ st' = AfterReady
                /\ serr' = ""
       /\ st = "Failed" => st' = "Failed" /\ serr' = serr /\ calls' = calls
      ]_vars

\* The timer won the race although the signal was already buffered.
C6_Witness == st = "Failed" /\ serr = ErrWaitUntilTimeout /\ waiter = 1

\* C7: with waitForSelectorTimeout = 0 and the session deadline not expired
\* the selector wait goes on until the selector resolves: it does not end
\* in a timeout.
C7_SelectorWaitBound ==
    [][st = "WaitingSelector" /\ opt.WaitForSelectorTimeout = 0
         /\ ctxErr = NoErr
         => ~(st' = "Failed" /\ serr' = ErrTimeout)]_vars

\* C8: when the selector is set and the document has no body at extraction
\* time, the session ends in Failed with NoBody and nothing is rendered.
C8_NoBodyFails ==
    "nodes:0" \in Range(calls)
      => /\ st = "Failed"
         /\ serr = ErrNoBody
         /\ "printToPDF" \notin Range(calls)

----------------------------------------------------------------------------
(* Merge specification *)

Init ==
    /\ NoSession
    /\ NoResolve
    /\ mctx = NoErr
    /\ tpc = <<>>
    /\ terr = <<>>
    /\ tbuf = <<>>
    /\ cres = <<>>
    /\ cerr = <<>>
    /\ bufs = <<>>
    /\ c = 0
    /\ readers = <<>>
    /\ mret = ""
    /\ mout = <<>>
    /\ encLog = <<>>
    /\ arrival = <<>>
    /\ docPwOnEntry = FALSE
    /\ \/ /\ mreq \in MergeRequests
          /\ mopt = NoMergeOptions
          /\ mpc = "request"
       \/ /\ mreq = NoRequest
          /\ mopt \in BuiltMergeOptions
          /\ mpc = "built"

Next ==
    \/ NewMergeOptionsFromJSON
    \/ Merge
    \/ \E i \in 1..N : ForMergeConvert(i)
    \/ \E i \in 1..N : ForMergeSendErr(i)
    \/ \E i \in 1..N : ForMergeSendRes(i)
    \/ ReceiveErr
    \/ ReceiveRes
    \/ ReceiveDone
    \/ MergeParts
    \/ SecureMerged
    \/ \E e \in {DeadlineExceeded, Canceled} : MergeCtxDone(e)

Spec == Init /\ [][Next]_vars

ResolveInit ==
    /\ rreq \in Requests
    /\ rpc = "request"
    /\ ropt = NilOptions
    /\ rerr = ""
    /\ NoSession
    /\ NoMerge

ResolveNext == ResolveRequest

ResolveSpec == ResolveInit /\ [][ResolveNext]_vars

----------------------------------------------------------------------------
(* Merge properties *)

Failed(i) == terr[i] # ""

\* C1: whenever Merge reaches the merge step of the PDF engine, the i-th
\* byte stream handed to it is the output of the document at index i of
\* Documents: the buffer its goroutine filled, which for a document that
\* rendered is the PDF printed from that document.
C1_MergeOrder ==
    readers # <<>>
      => \A i \in 1..N :
            /\ readers[i] = tbuf[i]
            /\ ~Failed(i)
                 => readers[i] = PostBytes(mopt.Documents[i],
                                           PrintToPDF(mopt.Documents[i]))

\* Two different documents whose results arrived in reverse order were
\* handed to the merge step.
C1_Witness ==
    /\ readers # <<>>
    /\ Len(arrival) >= 2
    /\ arrival[1] > arrival[2]
    /\ readers[arrival[1]] # readers[arrival[2]]
    /\ \A i \in 1..N : ~Failed(i)

\* C2: if the session of at least one document fails, the merge step of
\* the PDF engine is never invoked and Merge returns an error.
C2_ErrorFirstWins ==
    (\E i \in DOMAIN terr : Failed(i))
      => /\ readers = <<>>
         /\ mpc = "returned" => mret # ""

\* C9: if the context of the merge is done at any moment before Merge
\* returns, Merge returns Timeout.
C9_MergeDeadline ==
    mpc = "returned" /\ mctx # NoErr => mret = ErrTimeout

\* C10: the encryption capability is never invoked on the bytes of a single
\* document; it is invoked at most once, on the merged document, with the
\* passwords of the MergeOptions. The documents NewMergeOptionsFromJSON
\* returns, and the documents being rendered, have empty passwords.
C10_NoPerDocumentEncryption ==
    /\ Len(encLog) <= 1
    /\ \A k \in DOMAIN encLog :
          /\ encLog[k].target = "merged"
          /\ encLog[k].ownerPw = mopt.OwnerPassword
          /\ encLog[k].userPw = mopt.UserPassword
    /\ mpc \in {"resolved", "collect", "secure", "returned"}
         => \A i \in 1..N :
               /\ mopt.Documents[i].OwnerPassword = ""
               /\ mopt.Documents[i].UserPassword = ""

\* A merge of documents that carried passwords returned the merged
\* document, encrypted once.
C10_Witness ==
    /\ docPwOnEntry
    /\ mpc = "returned"
    /\ mret = ""
    /\ Len(encLog) = 1

----------------------------------------------------------------------------
(* Post-processing and temporary file properties *)

HasPassword(o) == ~(o.OwnerPassword = "" /\ o.UserPassword = "")

Stamped(b) == "stamp" \in Range(b)

\* C11: when the MergeOptions carry a watermark, the merged document Merge
\* writes to the output has been stamped.
C11_MergedWatermark ==
    mpc = "returned" /\ mret = "" /\ mopt.Watermark # "none"
      => Stamped(mout)

\* C12: with a watermark and a password, the encryption capability is
\* invoked only after the stamping capability and on the stamped bytes,
\* and a watermark failure keeps it from being invoked.
C12_WatermarkBeforeEncrypt ==
    /\ opt.Watermark # "none"
         => \A i \in DOMAIN calls :
               calls[i] = "encrypt"
                 => \E j \in 1..(i - 1) : calls[j] = "watermark"
    /\ serr = "WatermarkError" => "encrypt" \notin Range(calls)
    /\ st = "Done" /\ opt.Watermark # "none" /\ HasPassword(opt)
         => sout = Encrypt(watermark(PrintToPDF(opt), opt.Watermark),
                           opt.OwnerPassword, opt.UserPassword)

\* A conversion with a watermark and a password is done.
C12_Witness ==
    /\ st = "Done"
    /\ opt.Watermark # "none"
    /\ HasPassword(opt)
    /\ Stamped(sout)

\* C13: post-processing invokes the encryption capability exactly when one
\* of the two passwords is not empty; with both empty it returns its input
\* bytes unchanged and cannot fail.
C13_EncryptIffPassword ==
    /\ "encrypt" \in Range(calls) => HasPassword(opt)
    /\ st = "Done" \/ serr = "EncryptError"
         => ("encrypt" \in Range(calls) <=> HasPassword(opt))
    /\ serr = "EncryptError" => HasPassword(opt)
    /\ st = "Done" /\ ~HasPassword(opt)
         => sout = IF opt.Watermark # "none"
                   THEN watermark(PrintToPDF(opt), opt.Watermark)
                   ELSE PrintToPDF(opt)
    /\ st = "Done" /\ HasPassword(opt) => "enc" \in Range(sout)

\* A conversion without passwords is done: the printed bytes are the output.
C13_Witness ==
    /\ st = "Done"
    /\ ~HasPassword(opt)
    /\ opt.Watermark = "none"
    /\ sout = PrintToPDF(opt)
    /\ "printToPDF" \in Range(calls)

\* C14: a conversion whose options have neither a source nor both is
\* refused with NoSource and no render session is started for it.
C14_NoSource ==
    (opt.HTML = "") = (opt.URL = "")
      => /\ st \in {"Idle", "Init", "Failed"}
         /\ st = "Failed" => serr = ErrNoSource

\* C15: when an HTML conversion has returned, its temporary HTML file is
\* no longer on disk.
C15_TempFileRemoved ==
    st \in Terminal => ~fileExists

\* os.Remove was called and the file is still there.
RemoveFailed == "remove" \in Range(calls) /\ fileExists

\* C16 as stated: a failed removal of the temporary file after a successful
\* render does not fail the conversion: the session ends in Done and the
\* PDF bytes are written.
C16_RemoveNotFatal ==
    RemoveFailed => st = "Done" /\ sout # <<>>

\* C16 amended: a failed removal of the temporary file after a successful
\* render fails the conversion with the error of the removal: the session
\* ends in Failed, neither watermark nor encryption is invoked and nothing
\* is written to the output.
C16_RemoveFatal ==
    RemoveFailed
      => /\ st = "Failed"
         /\ serr = "RemoveError"
         /\ "printToPDF" \in Range(calls)
         /\ calls[Len(calls)] = "remove"
         /\ sout = <<>>

\* The page was printed and the removal of the file failed.
C16_Witness ==
    /\ RemoveFailed
    /\ "printToPDF" \in Range(calls)
    /\ opt.Watermark # "none"
    /\ HasPassword(opt)

----------------------------------------------------------------------------
(* Resolver properties *)

\* A resolution has returned for a body whose only key is key.
Resolved(key) == rpc # "request" /\ Present(rreq) = {key}

\* C17: for a body with none of the recognized keys the resolver succeeds
\* and returns the documented defaults, the value of NewConversionOptions().
C17_Defaults ==
    rpc # "request" /\ Present(rreq) \cap Keys = {}
      => /\ rpc = "resolved"
         /\ rerr = ""
         /\ ropt = NewConversionOptions
         /\ ropt.ViewportWidth = 1920 /\ ropt.ViewportHeight = 1080
         /\ \A side \in {"MarginTop", "MarginBottom", "MarginLeft",
                          "MarginRight"} : ropt[side] = Hundredths(40)
         /\ ropt.PaperWidth = Hundredths(850)
         /\ ropt.PaperHeight = Hundredths(1100)
         /\ ropt.Scale = 1
         /\ ropt.PrintBackground
         /\ ropt.WaitUntil = "load"
         /\ ropt.EmulateMedia = "screen"
         /\ \A d \in {"WaitForSelectorTimeout", "WaitUntilTimeout", "Delay",
                       "Timeout"} : ropt[d] = 0
         /\ \A t \in {"HTML", "URL", "PageRanges", "HeaderTemplate",
                       "FooterTemplate", "Selector", "WaitForSelector",
                       "OwnerPassword", "UserPassword"} : ropt[t] = ""
         /\ ropt.Headers = ""

\* A body with only a key the resolver does not read has been resolved.
C17_Witness ==
    /\ rpc = "resolved"
    /\ Present(rreq) = {"watermark"}
    /\ ropt.ViewportWidth = 1920

\* The values of a margin text and what each is in inches.
MarginValues == Split(Trim(Chars[rreq["margin"].s]))
Token(i) == stringToInch(MarginValues[i])

\* A margin text of one to four values that all unit-parse was resolved.
ShorthandResolved ==
    /\ Resolved("margin")
    /\ rreq["margin"].t = "string"
    /\ rreq["margin"].s # ""
    /\ Len(MarginValues) \in 1..4
    /\ \A i \in DOMAIN MarginValues : Token(i).err = ""

\* C18: a margin text of k values separated by spaces is expanded by the
\* CSS shorthand rule, each value unit-parsed on its own (a side that parses
\* to 0 is resolved to 0.00000001 in): k = 1 gives the four sides the first
\* value, k = 2 top and bottom the first and left and right the second,
\* k = 3 top the first, left and right the second, bottom the third, k = 4
\* top, right, bottom, left in that order.
C18_MarginShorthand ==
    /\ ShorthandResolved
         => LET k == Len(MarginValues)
                side(i) == Fix(Token(i).v)
            IN  /\ rpc = "resolved"
                /\ ropt.MarginTop = side(1)
                /\ ropt.MarginRight = side(IF k = 1 THEN 1 ELSE 2)
                /\ ropt.MarginBottom = side(IF k <= 2 THEN 1 ELSE 3)
                /\ ropt.MarginLeft =
                     side(IF k = 1 THEN 1 ELSE IF k = 4 THEN 4 ELSE 2)
    /\ Resolved("margin") /\ rreq["margin"] = JStr("10px 20px")
         => /\ ropt.MarginTop = Hundredths(10)
            /\ ropt.MarginBottom = Hundredths(10)
            /\ ropt.MarginLeft = Hundredths(21)
            /\ ropt.MarginRight = Hundredths(21)

\* A margin text of three values has been resolved.
C18_Witness ==
    /\ ShorthandResolved
    /\ rreq["margin"] = JStr("10px 20px 30px")
    /\ ropt.MarginTop = Hundredths(10)
    /\ ropt.MarginLeft = Hundredths(21)
    /\ ropt.MarginBottom = Hundredths(31)

\* A text that is a number, with no letters.
PlainNumber(cs) == cs # <<>> /\ ParseFloat(cs).err = ""

\* C19: a paperWidth text that is a plain number, so without one of the
\* units px, in, cm, mm, is taken as pixels: the resolved width is
\* round(value / 96 * 100) / 100 in, the width of the same text with "px"
\* appended.
C19_UnitlessIsPixels ==
    (/\ Resolved("paperWidth")
     /\ rreq["paperWidth"].t = "string"
     /\ PlainNumber(Chars[rreq["paperWidth"].s]))
      => LET cs == Chars[rreq["paperWidth"].s]
         IN  /\ rpc = "resolved"
             /\ ropt.PaperWidth = Hundredths(Round(ParseFloat(cs).v * 100,
                                                   9600))
             /\ ropt.PaperWidth = stringToInch(cs \o <<"p", "x">>).v

\* The scalar keys, the type each must have and the field each sets.
ScalarKeys ==
    [html |-> <<"string", "HTML">>, url |-> <<"string", "URL">>,
     format |-> <<"string", "PaperWidth">>,
     landscape |-> <<"bool", "Landscape">>,
     displayHeaderFooter |-> <<"bool", "DisplayHeaderFooter">>,
     printBackground |-> <<"bool", "PrintBackground">>,
     preferCSSPageSize |-> <<"bool", "PreferCSSPageSize">>,
     blockAds |-> <<"bool", "BlockAds">>,
     scale |-> <<"number", "Scale">>,
     viewportWidth |-> <<"number", "ViewportWidth">>,
     viewportHeight |-> <<"number", "ViewportHeight">>,
     waitForSelectorTimeout |-> <<"number", "WaitForSelectorTimeout">>,
     waitUntilTimeout |-> <<"number", "WaitUntilTimeout">>,
     delay |-> <<"number", "Delay">>, timeout |-> <<"number", "Timeout">>,
     headerTemplate |-> <<"string", "HeaderTemplate">>,
     footerTemplate |-> <<"string", "FooterTemplate">>,
     selector |-> <<"string", "Selector">>,
     waitForSelector |-> <<"string", "WaitForSelector">>,
     pageRanges |-> <<"string", "PageRanges">>,
     ownerPassword |-> <<"string", "OwnerPassword">>,
     userPassword |-> <<"string", "UserPassword">>]

\* The scalar keys of the body whose value has another type than the key's.
WrongType(keys) ==
    {k \in keys : rreq[k].t \notin {"absent", ScalarKeys[k][1]}}

UnitKeys ==
    {"paperWidth", "paperHeight", "marginTop", "marginRight", "marginBottom",
     "marginLeft"}

\* A text whose number, once the letters at its end are taken off, is not
\* a number.
Malformed(cs) == ParseFloat(StripLetters(cs)).err # ""

\* The body has a length, or a margin shorthand, with such a text.
MalformedUnit ==
    \/ \E k \in UnitKeys :
          rreq[k].t = "string" /\ Malformed(Chars[rreq[k].s])
    \/ /\ rreq["margin"].t = "string"
       /\ \E i \in DOMAIN Split(Trim(Chars[rreq["margin"].s])) :
             Malformed(Split(Trim(Chars[rreq["margin"].s]))[i])

\* C21: a body in which a length (paperWidth, paperHeight, a margin side or
\* a value of the margin shorthand) is a text that is not a number is
\* rejected with an error and no options are returned.
C21_MalformedUnitRejected ==
    rpc # "request" /\ MalformedUnit
      => rpc = "rejected" /\ rerr # "" /\ ropt = NilOptions

\* The format of the body names a preset, in any case.
Preset ==
    /\ rreq["format"].t = "string"
    /\ ToLowerText(rreq["format"].s) \in DOMAIN PaperFormats

\* C22: with a format that names a preset, in any case, the resolved paper
\* width and height are those of the preset whatever paperWidth and
\* paperHeight the body has (A4 is 8.27 in x 11.7 in); with another format
\* or none they are the ones of the body, or the defaults.
C22_FormatPreset ==
    rpc = "resolved"
      => /\ Preset
              => /\ ropt.PaperWidth
                      = Hundredths(PaperFormats[ToLowerText(rreq["format"].s)][1])
                 /\ ropt.PaperHeight
                      = Hundredths(PaperFormats[ToLowerText(rreq["format"].s)][2])
         /\ rreq["format"] \in {JStr("a4"), JStr("A4")}
              => /\ ropt.PaperWidth = Hundredths(827)
                 /\ ropt.PaperHeight = Hundredths(1170)
         /\ rreq["format"] = JStr("Letter")
              => /\ ropt.PaperWidth = Hundredths(850)
                 /\ ropt.PaperHeight = Hundredths(1100)
         /\ ~Preset
              => /\ ropt.PaperWidth
                      = parseUnit(rreq, "paperWidth", Hundredths(850)).v
                 /\ ropt.PaperHeight
                      = parseUnit(rreq, "paperHeight", Hundredths(1100)).v
         /\ ~Preset /\ rreq["paperWidth"] = JStr("96px")
              => ropt.PaperWidth = Hundredths(100)
         /\ ~Preset /\ rreq["paperWidth"].t = "absent"
              => ropt.PaperWidth = Hundredths(850)

\* A body with the format a4 and a paper width of its own was resolved.
C22_Witness ==
    /\ rpc = "resolved"
    /\ rreq["format"] = JStr("a4")
    /\ rreq["paperWidth"] = JStr("96px")
    /\ ropt.PaperWidth = Hundredths(827)

\* The value of key is a string that is none of allowed.
NotAllowed(key, allowed) ==
    rreq[key].t = "string" /\ rreq[key].s \notin allowed

\* C23: waitUntil is accepted only from load and dom, emulateMedia only
\* from screen and print: any other string is rejected with a ParseError
\* whose key is that field, and an absent key gives the default, load or
\* screen, without an error.
C23_EnumRejection ==
    rpc # "request"
      => /\ \A k \in {"waitUntil", "emulateMedia"} :
               NotAllowed(k, IF k = "waitUntil" THEN {"load", "dom"}
                             ELSE {MediaScreen, MediaPrint})
                 => /\ rpc = "rejected"
                    /\ ropt = NilOptions
                    /\ Present(rreq) = {k} => rerr = ParseError(k)
         /\ Resolved("waitUntil") /\ ~NotAllowed("waitUntil", {"load", "dom"})
               /\ rreq["waitUntil"].t = "string"
               => rpc = "resolved" /\ ropt.WaitUntil = rreq["waitUntil"].s
         /\ Resolved("emulateMedia") /\ rreq["emulateMedia"].t = "string"
               /\ ~NotAllowed("emulateMedia", {MediaScreen, MediaPrint})
               => rpc = "resolved"
                    /\ ropt.EmulateMedia = rreq["emulateMedia"].s
         /\ rpc = "resolved" /\ rreq["waitUntil"].t = "absent"
               => ropt.WaitUntil = "load"
         /\ rpc = "resolved" /\ rreq["emulateMedia"].t = "absent"
               => ropt.EmulateMedia = "screen"
         /\ Present(rreq) = {} => rpc = "resolved" /\ rerr = ""

\* The body with waitUntil "never" was rejected.
C23_Witness ==
    /\ rpc = "rejected"
    /\ rreq["waitUntil"] = JStr("never")
    /\ rerr = ParseError("waitUntil")

----------------------------------------------------------------------------
(* Merge request and fan-in properties *)

\* The elements of the documents array that do not resolve.
Invalid(items) ==
    {i \in DOMAIN items : NewConversionOptionsFromJSON(items[i]).err # ""}

\* The string of a JSON value, "" when it is absent.
Text(v) == IF v.t = "string" THEN v.s ELSE ""

\* C24: NewMergeOptionsFromJSON fails with a ParseError on documents when
\* that key is absent or not an array; otherwise it resolves the elements in
\* their order and returns the error of the first that does not resolve; on
\* success Documents has the length and the order of the array.
C24_MergeResolution ==
    [][mpc = "request" /\ mpc' # "request"
         => /\ mreq.documents.t # "array"
                 => mpc' = "rejected" /\ mret' = ParseError("documents")
            /\ mreq.documents.t = "array"
                  /\ Invalid(mreq.documents.items) # {}
                 => /\ mpc' = "rejected"
                    /\ \E i \in Invalid(mreq.documents.items) :
                          /\ \A j \in Invalid(mreq.documents.items) : i <= j
                          /\ mret' = ParseError(
                               IF mreq.documents.items[i].html.t = "number"
                               THEN "html" ELSE "url")
            /\ mpc' = "resolved"
                 => /\ mreq.documents.t = "array"
                    /\ Len(mopt'.Documents) = Len(mreq.documents.items)
                    /\ \A i \in DOMAIN mreq.documents.items :
                          /\ mopt'.Documents[i].HTML
                               = Text(mreq.documents.items[i].html)
                          /\ mopt'.Documents[i].URL
                               = Text(mreq.documents.items[i].url)]_vars

\* A request whose documents did not all resolve was rejected with the
\* error of a url.
C24_Witness ==
    /\ mpc = "rejected"
    /\ mret = ParseError("url")

\* The documents whose result is in cres or was taken from it.
Reported ==
    {cres[k].index : k \in DOMAIN cres} \cup Range(arrival)

\* C25: a render task reports a result when its session succeeded or an
\* error when it failed, never both: no document whose session failed has
\* a result in the result channel or with the coordinator.
C25_ResultOrError ==
    \A i \in DOMAIN terr : terr[i] # "" => i \notin Reported

\* C28: a render task at a send is never blocked, also after Merge has
\* returned with an error: the channel it sends to holds fewer messages
\* than its capacity, and no channel ever holds more than one message per
\* document.
C28_SendNeverBlocks ==
    /\ \A i \in DOMAIN tpc :
          /\ tpc[i] = "senderr" => Len(cerr) < ChanCap(N)
          /\ tpc[i] = "sendres" => Len(cres) < ChanCap(N)
    /\ mpc \in {"collect", "secure", "returned"}
         => /\ Len(cerr) <= Cardinality({i \in DOMAIN terr : terr[i] # ""})
            /\ Len(cres) + c <= Cardinality({i \in DOMAIN tpc : tpc[i] = "done"})

\* Merge has returned the error of one task while the result of another
\* waits in cres, and the failed task is about to send its result.
C28_Witness ==
    /\ mpc = "returned"
    /\ mret # ""
    /\ Len(cres) > 0
    /\ \E i \in DOMAIN tpc : tpc[i] = "sendres" /\ terr[i] # ""

----------------------------------------------------------------------------
(* Readiness timer *)

\* C27: while the session waits for readiness with WaitUntilTimeout > 0, the
\* timer it armed runs for the stored WaitUntilTimeout, the nanoseconds of
\* the requested milliseconds.
C27_TimerAsConfigured ==
    st = "WaitingReady" /\ opt.WaitUntilTimeout > 0
        => TimerDuration(opt) = Int64Bytes(opt.WaitUntilTimeout, 8)

----------------------------------------------------------------------------
(* Margins of returned options *)

\* C26: none of the four margins of options returned to the caller is
\* exactly 0.
C26_NoZeroMargin ==
    rpc = "resolved"
        => /\ ropt.MarginTop # Inches(0)
           /\ ropt.MarginRight # Inches(0)
           /\ ropt.MarginBottom # Inches(0)
           /\ ropt.MarginLeft # Inches(0)

====
